---- MODULE Spec2Model ----
(***************************************************************************)
(* The memoized position-lookup cache of IndexOf (islices/slice.go).      *)
(*                                                                         *)
(* The package keeps two process-wide maps, memoryHashMap (key -> entry)   *)
(* and memoryHashCounter (key -> number of lookups), guarded by the        *)
(* RWMutex muForMemoryHash.  IndexOf derives the key of a slice from the   *)
(* address of its backing storage (fmt.Sprintf("%p", arr)), builds the     *)
(* entry on a miss, counts the lookup, answers from the entry and, when    *)
(* the value was found and more than `limit` entries exist, deletes the    *)
(* entry with the lowest counter.                                          *)
(***************************************************************************)
EXTENDS Integers, Sequences, FiniteSets, TLC

VARIABLES
    mem,                \* backing storage: array id -> its elements
    nalloc,             \* how many backing arrays the callers have created
    memoryHashMap,      \* key -> (value -> index)
    memoryHashCounter,  \* key -> number of lookups
    readers,            \* muForMemoryHash: threads holding the shared lock
    writer,             \* muForMemoryHash: thread holding the exclusive lock, or 0
    pc,                 \* per thread: position inside IndexOf
    arr,                \* per thread: the slice argument [ptr, len]
    val,                \* per thread: the value argument
    index,              \* per thread: local `index` while the call runs
    ret,                \* per thread: value returned by its last call
    built,              \* per thread: its current/last call built the entry
    evicted,            \* per thread: its current/last call ran the eviction
    ncalls,             \* per thread: calls a worker has begun
    script              \* position of the skewed-counter test scenario

vars == <<mem, nalloc, memoryHashMap, memoryHashCounter, readers, writer,
          pc, arr, val, index, ret, built, evicted, ncalls, script>>

globals == <<memoryHashMap, memoryHashCounter>>
mutex == <<readers, writer>>
locals == <<pc, arr, val, index, ret, built, evicted>>

----------------------------------------------------------------------------
(* Program constant and bounds *)

limit == 10

\* lookups beyond the first one of each counted key (caps the counters)
MaxHits == 1

\* most lookups of one heavily queried slice in the skewed-counter scenario
MaxHeavy == 3

\* elements that may differ from the initial contents (aliasing runs)
MaxStores == 1

\* arrays used by the aliasing runs
AliasArrays == 1

\* calls each worker makes (concurrent runs)
MaxCalls == 1

\* The callers create one array more than the cache may hold; the skewed-counter
\* scenario creates two more.
NumArrays == limit + 1
Arrays == 1 .. (limit + 2)
Values == {1, 2, 3}
Threads == {1, 2, 3}
\* thread 1 runs its calls uninterrupted; the workers interleave step by step
Workers == {2, 3}

NoThread == 0
NoRet == -2
NoKey == <<>>

----------------------------------------------------------------------------
(* Slices and their storage *)

\* A slice header: ptr is the id of the backing array (0: nil), len its length.
NilSlice == [ptr |-> 0, len |-> 0]

\* Contents given to the a-th array when it is created.
InitContent(a) ==
    CASE a % 4 = 1 -> <<1, 2, 1>>
      [] a % 4 = 2 -> <<2, 2>>
      [] a % 4 = 3 -> <<3, 1, 3, 1>>
      [] OTHER     -> <<2, 3>>

\* The elements arr[0..len-1], as a 1-based sequence.
Elems(m, s) == IF s.ptr = 0 THEN <<>> ELSE SubSeq(m[s.ptr], 1, s.len)

\* The slice covering the whole of array a.
Whole(m, a) == [ptr |-> a, len |-> Len(m[a])]

\* Address of the first element of array a (0 for nil).
Addr(a) == 16 * a

RECURSIVE HexDigits(_)
HexDigits(n) == IF n < 16 THEN <<n>> ELSE Append(HexDigits(n \div 16), n % 16)

\* fmt.Sprintf("%p", arr): "0x" followed by the hex digits of the data pointer.
SprintfP(s) == <<"0x">> \o HexDigits(Addr(s.ptr))

----------------------------------------------------------------------------
(* Go map operations *)

MapPut(m, k, v) == [x \in (DOMAIN m) \cup {k} |-> IF x = k THEN v ELSE m[x]]
MapDelete(m, k) == [x \in (DOMAIN m) \ {k} |-> m[x]]
EmptyMap == [x \in {} |-> 0]

\* memoryHashMap[key] == nil
IsNil(hm, key) == key \notin DOMAIN hm

\* for i := len(arr) - 1; i >= 0; i-- { entry[arr[i]] = i }
RECURSIVE BuildLoop(_, _, _)
BuildLoop(s, i, e) ==
    IF i < 0 THEN e ELSE BuildLoop(s, i - 1, MapPut(e, s[i + 1], i))

\* (variant: the scan runs from the first element to the last)
RECURSIVE BuildLoopForward(_, _, _)
BuildLoopForward(s, i, e) ==
    IF i >= Len(s) THEN e ELSE BuildLoopForward(s, i + 1, MapPut(e, s[i + 1], i))

BuildEntryForward(s) == BuildLoopForward(s, 0, EmptyMap)

BuildEntry(s) == BuildLoop(s, Len(s) - 1, EmptyMap)

\* (variant: the entry is built on every call)
AlwaysBuild(hm, key) == TRUE

\* the check under the exclusive lock: whether this call builds
MustBuild(hm, key) == IsNil(hm, key)

\* (variant: make(map[any]int) is executed before the re-check, on every pass)
BuildAfterMake(hm, key, s) ==
    IF MustBuild(hm, key) THEN MapPut(hm, key, BuildEntry(s)) ELSE MapPut(hm, key, EmptyMap)

\* the second check and the build, under the exclusive lock
BuildIfNil(hm, key, s) ==
    IF MustBuild(hm, key) THEN MapPut(hm, key, BuildEntry(s)) ELSE hm

\* (variant: the increment touches every counter)
IncrementAll(hc, key) ==
    [k \in (DOMAIN hc) \cup {key} |-> IF k \in DOMAIN hc THEN hc[k] + 1 ELSE 1]

\* memoryHashCounter[key]++
Increment(hc, key) ==
    MapPut(hc, key, IF key \in DOMAIN hc THEN hc[key] + 1 ELSE 1)

\* index, ok := memoryHashMap[key][val]
LookupOk(hm, key, v) == key \in DOMAIN hm /\ v \in DOMAIN hm[key]
LookupIndex(hm, key, v) == IF LookupOk(hm, key, v) THEN hm[key][v] ELSE 0

\* len(memoryHashMap)
SizeOf(hm) == Cardinality(DOMAIN hm)

\* (variant: one entry more is tolerated)
OverLimitLate(sz) == sz > limit + 1

\* if size > limit
OverLimit(sz) == sz > limit

----------------------------------------------------------------------------
(* The eviction scan *)

\* Every key a slice can have, in a fixed order; a Go map range visits the
\* keys of memoryHashCounter in that order started from an arbitrary position.
KeySeq == [i \in 1 .. (limit + 3) |-> SprintfP([ptr |-> i - 1, len |-> 0])]
NumKeys == Len(KeySeq)

\* for k, v := range memoryHashCounter { if k == key {continue};
\*   if minVal == 0 || v < minVal { minKey = k; minVal = v } }
\* with the range started at position r
RECURSIVE ScanLoop(_, _, _, _, _, _)
ScanLoop(hc, r, i, key, minKey, minVal) ==
    IF i > NumKeys THEN minKey
    ELSE LET k == KeySeq[((i + r - 2) % NumKeys) + 1] IN
         IF k \notin DOMAIN hc \/ k = key
         THEN ScanLoop(hc, r, i + 1, key, minKey, minVal)
         ELSE IF minVal = 0 \/ hc[k] < minVal
              THEN ScanLoop(hc, r, i + 1, key, k, hc[k])
              ELSE ScanLoop(hc, r, i + 1, key, minKey, minVal)

\* (variant: any other counted key is taken)
AnyOtherKey(hc, key) == IF DOMAIN hc \ {key} = {} THEN {NoKey} ELSE DOMAIN hc \ {key}

\* (variant: the scan does not skip the key of the call)
MinKeysOwnIncluded(hc, key) == { ScanLoop(hc, r, 1, NoKey, NoKey, 0) : r \in 1 .. NumKeys }

\* the keys the scan can end with, over the iteration orders
MinKeys(hc, key) == { ScanLoop(hc, r, 1, key, NoKey, 0) : r \in 1 .. NumKeys }

----------------------------------------------------------------------------
(* Initial state: empty maps, unlocked mutex, no call made *)

Init ==
    /\ mem = [a \in Arrays |-> InitContent(a)]
    /\ nalloc = 0
    /\ memoryHashMap = EmptyMap
    /\ memoryHashCounter = EmptyMap
    /\ readers = {}
    /\ writer = NoThread
    /\ pc = [t \in Threads |-> "idle"]
    /\ arr = [t \in Threads |-> NilSlice]
    /\ val = [t \in Threads |-> 1]
    /\ index = [t \in Threads |-> 0]
    /\ ret = [t \in Threads |-> NoRet]
    /\ built = [t \in Threads |-> FALSE]
    /\ evicted = [t \in Threads |-> FALSE]
    /\ ncalls = [t \in Threads |-> 0]
    /\ script = [seq |-> 1, n |-> 0]

\* lookups beyond the first of each counted key
RECURSIVE HitsFrom(_, _)
HitsFrom(hc, i) ==
    IF i > NumKeys THEN 0
    ELSE (IF KeySeq[i] \in DOMAIN hc THEN hc[KeySeq[i]] - 1 ELSE 0) + HitsFrom(hc, i + 1)

Hits(hc) == HitsFrom(hc, 1)

\* The callers create their arrays one after the other and look up any array
\* created so far; a repeated lookup is allowed while the hit budget lasts.
MayCall(s) ==
    /\ s.ptr <= nalloc + 1
    /\ (SprintfP(s) \in DOMAIN memoryHashCounter => Hits(memoryHashCounter) < MaxHits)

\* key := fmt.Sprintf("%p", arr)
KeyOfSlice(s) == SprintfP(s)

Alloc(s) == IF s.ptr > nalloc THEN s.ptr ELSE nalloc

----------------------------------------------------------------------------
(* IndexOf run from call to return with no other call in between *)

IndexOf(t, s, v) ==
    LET key == SprintfP(s)
        hm1 == BuildIfNil(memoryHashMap, key, Elems(mem, s))
        hc1 == Increment(memoryHashCounter, key)
    IN  /\ pc[t] = "idle"
        /\ readers = {} /\ writer = NoThread
        /\ arr' = [arr EXCEPT ![t] = s]
        /\ val' = [val EXCEPT ![t] = v]
        /\ built' = [built EXCEPT ![t] = MustBuild(memoryHashMap, key)]
        /\ IF LookupOk(hm1, key, v)
           THEN /\ ret' = [ret EXCEPT ![t] = LookupIndex(hm1, key, v)]
                /\ IF OverLimit(SizeOf(hm1))
                   THEN \E minKey \in MinKeys(hc1, key) :
                            /\ memoryHashMap' = MapDelete(hm1, minKey)
                            /\ memoryHashCounter' = MapDelete(hc1, minKey)
                            /\ evicted' = [evicted EXCEPT ![t] = TRUE]
                   ELSE /\ memoryHashMap' = hm1
                        /\ memoryHashCounter' = hc1
                        /\ evicted' = [evicted EXCEPT ![t] = FALSE]
           ELSE /\ ret' = [ret EXCEPT ![t] = -1]
                /\ memoryHashMap' = hm1
                /\ memoryHashCounter' = hc1
                /\ evicted' = [evicted EXCEPT ![t] = FALSE]
        /\ UNCHANGED <<mem, mutex, pc, index>>

\* A sequential caller looking up whole, unshared, unmodified slices.
CallOn(a, v) ==
    /\ MayCall(Whole(mem, a))
    /\ nalloc' = Alloc(Whole(mem, a))
    /\ IndexOf(1, Whole(mem, a), v)
    /\ UNCHANGED <<ncalls, script>>

Call == \E a \in 1 .. NumArrays, v \in Values : CallOn(a, v)

Next == Call

Spec == Init /\ [][Next]_vars

----------------------------------------------------------------------------
(* Sequential callers that share and modify storage: a slice may be nil or  *)
(* any prefix arr[:n] of an array, and elements may be overwritten between  *)
(* calls.                                                                   *)

RECURSIVE StoresFrom(_, _, _)
StoresFrom(m, a, i) ==
    IF a > AliasArrays THEN 0
    ELSE IF i > Len(m[a]) THEN StoresFrom(m, a + 1, 1)
    ELSE (IF m[a][i] # InitContent(a)[i] THEN 1 ELSE 0) + StoresFrom(m, a, i + 1)

\* elements that differ from the initial contents
Stores(m) == StoresFrom(m, 1, 1)

CallAny ==
    \E a \in 0 .. AliasArrays, v \in Values :
        \E n \in 0 .. (IF a = 0 THEN 0 ELSE Len(mem[a])) :
            /\ MayCall([ptr |-> a, len |-> n])
            /\ nalloc' = Alloc([ptr |-> a, len |-> n])
            /\ IndexOf(1, [ptr |-> a, len |-> n], v)
            /\ UNCHANGED <<ncalls, script>>

\* arr[i] = v by the owner of the array, between two calls
Store ==
    \E a \in 1 .. AliasArrays, v \in Values :
        \E i \in 1 .. Len(mem[a]) :
            /\ a <= nalloc
            /\ v # mem[a][i]
            /\ mem' = [mem EXCEPT ![a][i] = v]
            /\ Stores(mem') <= MaxStores
            /\ UNCHANGED <<nalloc, globals, mutex, locals, ncalls, script>>

NextAlias == CallAny \/ Store

SpecAlias == Init /\ [][NextAlias]_vars

----------------------------------------------------------------------------
(* The skewed-counter scenario: each of the first `limit` slices is looked  *)
(* up MaxHeavy-1 or MaxHeavy times, then slice limit+1 once, then slice limit+2 once; the  *)
(* value looked up is always one of the slice's elements.                   *)

Present(m, a) == { m[a][i] : i \in 1 .. Len(m[a]) }

SkewLookup(a) ==
    \E v \in Present(mem, a) :
        /\ nalloc' = Alloc(Whole(mem, a))
        /\ IndexOf(1, Whole(mem, a), v)
        /\ UNCHANGED ncalls

SkewHeavy ==
    /\ script.seq <= limit
    /\ script.n < MaxHeavy
    /\ SkewLookup(script.seq)
    /\ script' = [script EXCEPT !.n = script.n + 1]

SkewAdvance ==
    /\ script.seq <= limit
    /\ script.n >= MaxHeavy - 1
    /\ script' = [seq |-> script.seq + 1, n |-> 0]
    /\ UNCHANGED <<mem, nalloc, globals, mutex, locals, ncalls>>

SkewOnce ==
    /\ script.seq \in {limit + 1, limit + 2}
    /\ SkewLookup(script.seq)
    /\ script' = [seq |-> script.seq + 1, n |-> 0]

NextSkew == SkewHeavy \/ SkewAdvance \/ SkewOnce

SpecSkew == Init /\ [][NextSkew]_vars

SkewDone == script.seq = limit + 3

----------------------------------------------------------------------------
(* Concurrent callers.  A worker's call is a sequence of steps; a step is   *)
(* the acquisition of muForMemoryHash, or one locked section together with  *)
(* the release that ends it and the local branch that follows.              *)

\* the workers look up the two newest slices, for a value that is or is not there
WorkerArrays == {limit, limit + 1}
WorkerValues == {1, 2}

Goto(t, l) == pc' = [pc EXCEPT ![t] = l]

\* return r
Return(t, r) ==
    /\ Goto(t, "idle")
    /\ ret' = [ret EXCEPT ![t] = r]
    /\ index' = [index EXCEPT ![t] = 0]

\* IndexOf(arr, val) is entered; key := fmt.Sprintf("%p", arr)
BeginOn(t, A, V) ==
    \E a \in A, v \in V :
        /\ pc[t] = "idle"
        /\ ncalls[t] < MaxCalls
        /\ a <= nalloc + 1
        /\ ncalls' = [ncalls EXCEPT ![t] = ncalls[t] + 1]
        /\ nalloc' = Alloc(Whole(mem, a))
        /\ Goto(t, "rlock1")
        /\ arr' = [arr EXCEPT ![t] = Whole(mem, a)]
        /\ val' = [val EXCEPT ![t] = v]
        /\ ret' = [ret EXCEPT ![t] = NoRet]
        /\ built' = [built EXCEPT ![t] = FALSE]
        /\ evicted' = [evicted EXCEPT ![t] = FALSE]
        /\ UNCHANGED <<mem, globals, mutex, index, script>>

Begin(t) == BeginOn(t, WorkerArrays, WorkerValues)

\* where each acquisition leads
AfterLock(l) ==
    CASE l = "rlock1" -> "check1"
      [] l = "rlock4" -> "read"
      [] l = "rlock5" -> "size"
      [] l = "lock2"  -> "build"
      [] l = "lock3"  -> "incr"
      [] l = "lock6"  -> "evict"

\* muForMemoryHash.RLock()
RLock(t) ==
    /\ pc[t] \in {"rlock1", "rlock4", "rlock5"}
    /\ writer = NoThread
    /\ readers' = readers \cup {t}
    /\ Goto(t, AfterLock(pc[t]))
    /\ UNCHANGED <<mem, nalloc, globals, writer, arr, val, index, ret, built, evicted, ncalls, script>>

\* (variant: Lock does not wait for the readers to leave)
LockIgnoresReaders(t) ==
    /\ pc[t] \in {"lock2", "lock3", "lock6"}
    /\ writer = NoThread
    /\ writer' = t
    /\ Goto(t, AfterLock(pc[t]))
    /\ UNCHANGED <<mem, nalloc, globals, readers, arr, val, index, ret, built, evicted, ncalls, script>>

\* muForMemoryHash.Lock()
Lock(t) ==
    /\ pc[t] \in {"lock2", "lock3", "lock6"}
    /\ writer = NoThread
    /\ readers = {}
    /\ writer' = t
    /\ Goto(t, AfterLock(pc[t]))
    /\ UNCHANGED <<mem, nalloc, globals, readers, arr, val, index, ret, built, evicted, ncalls, script>>

\* muForMemoryHash.RUnlock()
RUnlock(t) == readers' = readers \ {t} /\ UNCHANGED writer

\* muForMemoryHash.Unlock()
Unlock(t) == writer' = (IF writer = t THEN NoThread ELSE writer) /\ UNCHANGED readers

\* (variant: on a miss the shared lock is still held when Lock is requested)
Check1KeepsLock(t) ==
    /\ pc[t] = "check1"
    /\ IF IsNil(memoryHashMap, KeyOfSlice(arr[t]))
       THEN Goto(t, "lock2") /\ UNCHANGED mutex
       ELSE Goto(t, "lock3") /\ RUnlock(t)
    /\ UNCHANGED <<mem, nalloc, globals, arr, val, index, ret, built, evicted, ncalls, script>>

\* if memoryHashMap[key] == nil { RUnlock ... } else { RUnlock }
Check1(t) ==
    /\ pc[t] = "check1"
    /\ RUnlock(t)
    /\ Goto(t, IF IsNil(memoryHashMap, KeyOfSlice(arr[t])) THEN "lock2" ELSE "lock3")
    /\ UNCHANGED <<mem, nalloc, globals, arr, val, index, ret, built, evicted, ncalls, script>>

\* if memoryHashMap[key] == nil { build }; Unlock
Build(t) ==
    /\ pc[t] = "build"
    /\ memoryHashMap' = BuildIfNil(memoryHashMap, KeyOfSlice(arr[t]), Elems(mem, arr[t]))
    /\ built' = [built EXCEPT ![t] = MustBuild(memoryHashMap, KeyOfSlice(arr[t]))]
    /\ Unlock(t)
    /\ Goto(t, "lock3")
    /\ UNCHANGED <<mem, nalloc, memoryHashCounter, arr, val, index, ret, evicted, ncalls, script>>

\* memoryHashCounter[key]++; Unlock
Incr(t) ==
    /\ pc[t] = "incr"
    /\ memoryHashCounter' = Increment(memoryHashCounter, KeyOfSlice(arr[t]))
    /\ Unlock(t)
    /\ Goto(t, "rlock4")
    /\ UNCHANGED <<mem, nalloc, memoryHashMap, arr, val, index, ret, built, evicted, ncalls, script>>

\* index, ok := memoryHashMap[key][val]; RUnlock; if ok {...}; return -1
Read(t) ==
    /\ pc[t] = "read"
    /\ RUnlock(t)
    /\ IF LookupOk(memoryHashMap, KeyOfSlice(arr[t]), val[t])
       THEN /\ index' = [index EXCEPT ![t] = LookupIndex(memoryHashMap, KeyOfSlice(arr[t]), val[t])]
            /\ Goto(t, "rlock5")
            /\ UNCHANGED ret
       ELSE Return(t, -1)
    /\ UNCHANGED <<mem, nalloc, globals, arr, val, built, evicted, ncalls, script>>

\* size := len(memoryHashMap); RUnlock; if size > limit {...}; return index
Size(t) ==
    /\ pc[t] = "size"
    /\ RUnlock(t)
    /\ IF OverLimit(SizeOf(memoryHashMap))
       THEN Goto(t, "lock6") /\ UNCHANGED <<index, ret>>
       ELSE Return(t, index[t])
    /\ UNCHANGED <<mem, nalloc, globals, arr, val, built, evicted, ncalls, script>>

\* the scan; delete(memoryHashMap, minKey); delete(memoryHashCounter, minKey);
\* Unlock; return index
Evict(t) ==
    /\ pc[t] = "evict"
    /\ \E minKey \in MinKeys(memoryHashCounter, KeyOfSlice(arr[t])) :
          /\ memoryHashMap' = MapDelete(memoryHashMap, minKey)
          /\ memoryHashCounter' = MapDelete(memoryHashCounter, minKey)
    /\ evicted' = [evicted EXCEPT ![t] = TRUE]
    /\ Unlock(t)
    /\ Return(t, index[t])
    /\ UNCHANGED <<mem, nalloc, arr, val, built, ncalls, script>>

Step(t) ==
    \/ Begin(t)
    \/ RLock(t)
    \/ Lock(t)
    \/ Check1(t)
    \/ Build(t)
    \/ Incr(t)
    \/ Read(t)
    \/ Size(t)
    \/ Evict(t)

\* Thread 1 fills the cache, each call uninterrupted while the mutex is free:
\* it looks up one element of each slice it creates, the first limit-2 slices
\* a second time.
MainCall ==
    LET last == KeyOfSlice(Whole(mem, nalloc))
        again == /\ nalloc \in 1 .. (limit - 2)
                 /\ last \in DOMAIN memoryHashCounter
                 /\ memoryHashCounter[last] = 1
        a == IF again THEN nalloc ELSE nalloc + 1
    IN  /\ a <= NumArrays
        /\ nalloc' = a
        /\ IndexOf(1, Whole(mem, a), mem[a][1])
        /\ UNCHANGED <<ncalls, script>>

NextConc == MainCall \/ \E t \in Workers : Step(t)

SpecConc == Init /\ [][NextConc]_vars

\* A running thread keeps running, and the mutex serves every waiter: a
\* sync.RWMutex lets neither a blocked Lock nor a blocked RLock wait forever
\* while the lock keeps being released.
Running(t) == Check1(t) \/ Build(t) \/ Incr(t) \/ Read(t) \/ Size(t) \/ Evict(t)

FairConc ==
    \A t \in Workers :
        WF_vars(Running(t)) /\ SF_vars(RLock(t)) /\ SF_vars(Lock(t))

\* The locking runs: as the concurrent runs, the workers looking up value 1
\* only (absent from slice `limit`, present in slice limit+1), which takes
\* every path through the locked sections.
NextLocks == MainCall \/ \E t \in Workers : BeginOn(t, WorkerArrays, {1}) \/ Running(t) \/ RLock(t) \/ Lock(t)

SpecLocks == Init /\ [][NextLocks]_vars /\ FairConc

\* The overflow runs: as the concurrent runs, the workers looking up the two
\* slices after the first `limit`, for a value that both contain.
OverArrays == {limit + 1, limit + 2}

NextOver == MainCall \/ \E t \in Workers : BeginOn(t, OverArrays, {3}) \/ Running(t) \/ RLock(t) \/ Lock(t)

SpecOver == Init /\ [][NextOver]_vars

----------------------------------------------------------------------------
(* Properties *)

\* The reference: the lowest 0-based index of v in s by a linear scan, or -1.
LinearScan(s, v) ==
    IF \E i \in 1 .. Len(s) : s[i] = v
    THEN (CHOOSE i \in 1 .. Len(s) : s[i] = v /\ \A j \in 1 .. (i - 1) : s[j] # v) - 1
    ELSE -1

KeyOf(t) == KeyOfSlice(arr[t])
Returned(t) == pc[t] = "idle" /\ ret[t] # NoRet
Quiescent == \A t \in Threads : pc[t] = "idle"

\* C1: in sequential use on whole, unshared, unmodified slices every call of
\* IndexOf (first, repeated, after lookups of other slices and after
\* evictions) returns what the linear scan returns.
C1_AgreesWithLinearScan ==
    Returned(1) => ret[1] = LinearScan(Elems(mem, arr[1]), val[1])

\* a repeated lookup of a duplicated value, made after an eviction has taken place
C1_Witness ==
    /\ Returned(1) /\ ~built[1]
    /\ nalloc = NumArrays /\ SizeOf(memoryHashMap) = limit
    /\ Elems(mem, arr[1]) = <<3, 1, 3, 1>> /\ val[1] = 1 /\ ret[1] = 1

\* C2: under any interleaving every call returns what the linear scan returns
\* for its slice and value.
C2_ConcurrentAgrees ==
    \A t \in Threads : Returned(t) => ret[t] = LinearScan(Elems(mem, arr[t]), val[t])

\* C3: in sequential use, whenever no call is in progress, at most `limit`
\* keys have an entry.
C3_AtMostLimitKeys == Quiescent => SizeOf(memoryHashMap) <= limit

\* the thread whose call takes the step: the worker leaving its eviction
\* section, or else thread 1
Evictor ==
    IF \E t \in Workers : pc[t] = "evict" /\ pc'[t] = "idle"
    THEN CHOOSE t \in Workers : pc[t] = "evict" /\ pc'[t] = "idle"
    ELSE 1

\* C4: the key an eviction removes is not the caller's key and has the lowest
\* counter among the counted keys other than the caller's (sequential and
\* interleaved calls).
C4_EvictsLeastCounted ==
    [][\A k \in (DOMAIN memoryHashCounter) \ (DOMAIN memoryHashCounter') :
          /\ evicted'[Evictor]
          /\ k # SprintfP(arr'[Evictor])
          /\ \A j \in (DOMAIN memoryHashCounter) \ {SprintfP(arr'[Evictor])} :
                memoryHashCounter[k] <= memoryHashCounter[j]]_vars

\* a worker's eviction has removed a key while other keys had a higher counter
C4_Witness ==
    \E t \in Workers :
        /\ Returned(t) /\ evicted[t]
        /\ SizeOf(memoryHashMap) = limit
        /\ \E k \in DOMAIN memoryHashCounter : k # KeyOf(t) /\ memoryHashCounter[k] >= 2

HeavyKeys == { SprintfP(Whole(mem, a)) : a \in 1 .. limit }
SingleKey == SprintfP(Whole(mem, limit + 1))
NewKey == SprintfP(Whole(mem, limit + 2))

\* C5 (as claimed): after the skewed-counter scenario the singly queried key is
\* evicted and every heavily queried key is still cached.
C5_AllHeavyKept ==
    SkewDone => SingleKey \notin DOMAIN memoryHashMap /\ HeavyKeys \subseteq DOMAIN memoryHashMap

\* C5 (amended): after the skewed-counter scenario the singly queried key is
\* evicted and all but one of the heavily queried keys are still cached; one
\* heavy key was evicted by the lookup of the singly queried slice.
C5_AllButOneHeavyKept ==
    SkewDone =>
        /\ SingleKey \notin DOMAIN memoryHashMap
        /\ Cardinality(HeavyKeys \cap DOMAIN memoryHashMap) = limit - 1
        /\ NewKey \in DOMAIN memoryHashMap

C5_Witness == SkewDone /\ evicted[1] /\ SizeOf(memoryHashMap) = limit

\* C6: IndexOf on an empty slice returns -1 whatever the cache holds.
C6_EmptyNotFound == (Returned(1) /\ arr[1].len = 0) => ret[1] = -1

\* C7: a lookup of an absent value returns -1 and leaves an entry for the
\* slice's key; the next lookup on the same slice of a present value does not
\* build, leaves the entry as it is and returns the lowest index of the value.
C7_AbsentThenPresent ==
    /\ [](Returned(1) /\ LinearScan(Elems(mem, arr[1]), val[1]) = -1
            => ret[1] = -1 /\ KeyOf(1) \in DOMAIN memoryHashMap)
    /\ [][(/\ Returned(1) /\ LinearScan(Elems(mem, arr[1]), val[1]) = -1
           /\ memoryHashCounter' # memoryHashCounter
           /\ arr'[1] = arr[1]
           /\ LinearScan(Elems(mem, arr[1]), val'[1]) # -1)
          => /\ ~built'[1]
             /\ memoryHashMap'[KeyOf(1)] = memoryHashMap[KeyOf(1)]
             /\ ret'[1] = LinearScan(Elems(mem, arr[1]), val'[1])]_vars

\* a lookup of the absent value 2 has returned -1 and left the entry it built,
\* which holds index 1 for value 1
C7_Witness ==
    /\ Returned(1) /\ built[1]
    /\ Elems(mem, arr[1]) = <<3, 1, 3, 1>> /\ val[1] = 2 /\ ret[1] = -1
    /\ KeyOf(1) \in DOMAIN memoryHashMap
    /\ memoryHashMap[KeyOf(1)][1] = 1

\* C8: of the calls that are in progress together on the same key at most one
\* has built the entry.
C8_OneBuilder ==
    \A t, u \in Workers :
        (t # u /\ pc[t] # "idle" /\ pc[u] # "idle" /\ KeyOf(t) = KeyOf(u))
            => ~(built[t] /\ built[u])

InCall(t) == pc[t] # "idle"
HoldsShared(t) == t \in readers
HoldsExclusive(t) == writer = t

\* C10: no call asks for the exclusive lock, or for the shared lock again, while
\* it holds the mutex; a call that has returned holds nothing; the exclusive
\* lock excludes every other holder; and under fair scheduling every call that
\* has begun returns.
C10_LocksReleasedAndCallsReturn ==
    /\ [](\A t \in Threads :
            /\ pc[t] \in {"lock2", "lock3", "lock6", "rlock1", "rlock4", "rlock5", "idle"}
                  => ~HoldsShared(t) /\ ~HoldsExclusive(t)
            /\ pc[t] \in {"check1", "read", "size"} => HoldsShared(t) /\ writer = NoThread
            /\ pc[t] \in {"build", "incr", "evict"} => HoldsExclusive(t) /\ readers = {})
    /\ \A t \in Workers : InCall(t) ~> ~InCall(t)

\* both workers have returned; one went through all six locked sections, the
\* other built its entry
C10_Witness ==
    /\ Returned(2) /\ evicted[2]
    /\ Returned(3) /\ built[3]

\* the set of elements of a sequence
Range(s) == { s[i] : i \in 1 .. Len(s) }

\* C11: a step that adds an entry adds it under the key of the slice S of the
\* call, and the entry's domain is exactly the set of elements of S, each
\* mapped to its lowest index in S; for an empty S the entry is the empty map.
C11_BuiltEntryMapsLowestIndex ==
    [][\A k \in (DOMAIN memoryHashMap') \ (DOMAIN memoryHashMap) :
            /\ built'[1]
            /\ k = KeyOfSlice(arr'[1])
            /\ DOMAIN memoryHashMap'[k] = Range(Elems(mem, arr'[1]))
            /\ \A v \in Range(Elems(mem, arr'[1])) :
                   memoryHashMap'[k][v] = LinearScan(Elems(mem, arr'[1]), v)
            /\ (arr'[1].len = 0 => memoryHashMap'[k] = EmptyMap)]_vars

\* the last call built the entry of <<1, 2, 1>>: 1 at index 0 and 2 at index 1;
\* the entry built from the nil slice is empty
C11_Witness ==
    /\ Returned(1) /\ built[1]
    /\ Elems(mem, arr[1]) = <<1, 2, 1>>
    /\ DOMAIN memoryHashMap[KeyOf(1)] = {1, 2}
    /\ memoryHashMap[KeyOf(1)][1] = 0
    /\ memoryHashMap[KeyOf(1)][2] = 1
    /\ KeyOfSlice(NilSlice) \in DOMAIN memoryHashMap
    /\ memoryHashMap[KeyOfSlice(NilSlice)] = EmptyMap

\* memoryHashCounter[k], which reads 0 for a key that has no counter
Count(hc, k) == IF k \in DOMAIN hc THEN hc[k] ELSE 0

\* this step is the increment of a call on key k: a whole uninterrupted call
\* of thread 1 (no worker moves), or a worker's memoryHashCounter[key]++
Counts(k) ==
    \/ pc' = pc /\ KeyOfSlice(arr'[1]) = k
    \/ \E t \in Workers : pc[t] = "incr" /\ pc'[t] # "incr" /\ KeyOf(t) = k

\* another call on key k is between its entry and its return
InProgressOn(k) ==
    \E u \in Workers : pc[u] \notin {"idle", "build"} /\ KeyOf(u) = k

\* C12: the counter of a cached key is the number of calls on that key since
\* its entry was built: the counter of an entry built while no other call on
\* its key is in progress counts from zero (it is 1 once the building call has
\* counted itself), and while the key stays cached each call on the key adds
\* exactly 1 and nothing else changes the counter.
C12_CounterCountsCallsSinceBuild ==
    [][\A k \in DOMAIN memoryHashMap' :
            (k \in DOMAIN memoryHashMap \/ ~InProgressOn(k)) =>
                Count(memoryHashCounter', k) =
                    (IF k \in DOMAIN memoryHashMap THEN Count(memoryHashCounter, k) ELSE 0)
                    + (IF Counts(k) THEN 1 ELSE 0)]_vars

\* C13: a call that builds an entry and thereby brings the number of cached
\* keys above limit evicts another key before it returns, whether the value
\* looked up is in the slice or not: a call that has built and returned
\* without evicting leaves at most limit keys.
C13_BuilderEvictsOnOverflow ==
    (Returned(1) /\ built[1] /\ ~evicted[1]) => ~OverLimit(SizeOf(memoryHashMap))

\* C14: in every state, between calls and in the middle of concurrent calls,
\* memoryHashMap holds at most limit+1 keys.
C14_AtMostLimitPlusOneKeys == SizeOf(memoryHashMap) <= limit + 1

\* C15: an eviction never leaves fewer than limit keys cached: when several
\* concurrent calls observe the same overflow, only one key is evicted in all.
C15_EvictionKeepsLimitKeys ==
    [][SizeOf(memoryHashMap') < SizeOf(memoryHashMap) =>
            SizeOf(memoryHashMap') >= limit]_vars

\* C16: in sequential use the eviction made by a call never removes the key
\* of the call's own slice: when IndexOf(S, v) has returned, the key of S has
\* both its entry and its counter.
C16_OwnKeyKept ==
    Returned(1) =>
        /\ KeyOf(1) \in DOMAIN memoryHashMap
        /\ KeyOf(1) \in DOMAIN memoryHashCounter

\* the call evicted while its own key had a counter as low as any other
C16_Witness ==
    /\ Returned(1) /\ evicted[1]
    /\ KeyOf(1) \in DOMAIN memoryHashCounter
    /\ \A k \in DOMAIN memoryHashCounter :
           memoryHashCounter[KeyOf(1)] <= memoryHashCounter[k]

\* the sections that read and those that write memoryHashMap or memoryHashCounter
ReadSections == {"check1", "read", "size"}
WriteSections == {"build", "incr", "evict"}

\* C17: a thread reads memoryHashMap or memoryHashCounter only while it holds
\* muForMemoryHash (shared or exclusive) and writes them only while it holds it
\* exclusively; while a thread is in a writing section no other thread is in
\* a reading or a writing section, and a whole uninterrupted call runs only
\* when no worker is in a section.
C17_AccessUnderLock ==
    /\ [](\A t \in Workers :
             /\ pc[t] \in ReadSections => (t \in readers \/ writer = t)
             /\ pc[t] \in WriteSections => (writer = t /\ readers = {}))
    /\ [](\A t, u \in Workers :
             (t # u /\ pc[t] \in WriteSections) =>
                 pc[u] \notin ReadSections \cup WriteSections)
    /\ [][pc' = pc => \A t \in Workers : pc[t] \notin ReadSections \cup WriteSections]_vars

\* one worker is evicting while the other, having seen the same overflow,
\* waits for the exclusive lock
C17_Witness ==
    /\ pc[2] = "evict" /\ writer = 2
    /\ pc[3] = "lock6"

\* C18: from the step that makes the entry of a key visible until the key is
\* evicted the entry does not change: it appears whole, built in one
\* exclusive section, and no later step of any call alters it.
C18_EntryImmutable ==
    [][\A k \in DOMAIN memoryHashMap :
            /\ k \in DOMAIN memoryHashMap' => memoryHashMap'[k] = memoryHashMap[k]
            /\ k \notin DOMAIN memoryHashMap' =>
                   \E t \in Threads : evicted'[t] /\ KeyOfSlice(arr'[t]) # k]_vars

\* a worker is in the building section, about to re-check, for a key whose
\* entry the other worker has built in the meantime
C18_Witness ==
    /\ pc[3] = "build"
    /\ built[2] /\ KeyOf(2) = KeyOf(3)
    /\ KeyOf(3) \in DOMAIN memoryHashMap
    /\ memoryHashMap[KeyOf(3)] # EmptyMap

\* C19: whenever no call is in progress the keys that have an entry are the
\* keys that have a counter, and every counter is at least 1.
C19_EntriesAndCountersAgree ==
    Quiescent =>
        /\ DOMAIN memoryHashMap = DOMAIN memoryHashCounter
        /\ \A k \in DOMAIN memoryHashCounter : memoryHashCounter[k] >= 1

\* the thread that takes the step: thread 1 when no worker moves
Actor == IF pc' = pc THEN 1 ELSE CHOOSE t \in Workers : pc'[t] # pc[t]

\* the entry and the counter of key k, as far as they exist
Stored(hm, hc, k) ==
    << IF k \in DOMAIN hm THEN <<hm[k]>> ELSE <<>>,
       IF k \in DOMAIN hc THEN <<hc[k]>> ELSE <<>> >>

\* the keys other than the caller's whose entry or counter the step changes
OthersChanged ==
    { k \in (DOMAIN memoryHashMap) \cup (DOMAIN memoryHashCounter)
            \cup (DOMAIN memoryHashMap') \cup (DOMAIN memoryHashCounter') :
        /\ k # KeyOfSlice(arr'[Actor])
        /\ Stored(memoryHashMap', memoryHashCounter', k)
               # Stored(memoryHashMap, memoryHashCounter, k) }

\* C20: a call on key k leaves the entry and the counter of every other key
\* as they are, except that its eviction may remove one other key, entry and
\* counter together.
C20_OtherKeysUntouched ==
    [][/\ Cardinality(OthersChanged) <= 1
       /\ \A k \in OthersChanged :
              /\ evicted'[Actor]
              /\ k \notin DOMAIN memoryHashMap'
              /\ k \notin DOMAIN memoryHashCounter']_vars

\* a worker's call has evicted the key of slice limit-1, entry and counter,
\* and the slices before it are cached and counted as they were
C20_Witness ==
    /\ \E t \in Workers : Returned(t) /\ evicted[t]
    /\ KeyOfSlice(Whole(mem, limit - 1)) \notin DOMAIN memoryHashMap
    /\ KeyOfSlice(Whole(mem, limit - 1)) \notin DOMAIN memoryHashCounter
    /\ \A a \in 1 .. (limit - 2) :
           /\ KeyOfSlice(Whole(mem, a)) \in DOMAIN memoryHashMap
           /\ KeyOfSlice(Whole(mem, a)) \in DOMAIN memoryHashCounter
           /\ memoryHashCounter[KeyOfSlice(Whole(mem, a))] = 2

====
